---- MODULE Spec2Model ----
(***************************************************************************)
(* Balance reconciliation of the water-supply ledger.                      *)
(*                                                                         *)
(* The store holds two collections, customers and waterSupplyEntries.      *)
(* addWaterSupplyEntry, updateWaterSupplyEntry, deleteWaterSupplyEntry     *)
(* and recordPayment run as Firestore transactions (runTransaction),       *)
(* deleteCustomer as a write batch, addCustomer as a single addDoc;        *)
(* calculateCharge touches no document.  A transaction reads documents,    *)
(* stages writes and commits them atomically; the commit is refused when a *)
(* document the transaction read has been written since, and the update    *)
(* function is then run again.  transaction.get after a staged write is    *)
(* rejected by the client ("all reads before all writes").                 *)
(*                                                                         *)
(* Each client is a process; one step of a process runs from one store     *)
(* access to the next.  Spec runs the operations one after another,        *)
(* SpecConc interleaves the steps of two clients, SpecEdit adds            *)
(* updateWaterSupplyEntry to the operations on entries, and SpecCharge     *)
(* runs calculateCharge beside addWaterSupplyEntry.  SpecForm follows the  *)
(* new-entry page from field changes to the stored entry, SpecDash adds    *)
(* getDashboardData and SpecReport exportEntries to the stored data.       *)
(***************************************************************************)
EXTENDS Integers, Sequences, FiniteSets, TLC

\* ------------------------------------------------------------- bounds
\* Number of calls the clients make in all.
MaxCalls == 4
\* Entry documents get fresh ids; at most one is created per call.
MaxEntries == MaxCalls

\* ------------------------------------------------------------- domains
CustIds == {"c1", "c2"}
\* An empty customerId argument ('' is falsy in the argument checks).
NoId == ""
EntryIds == 1..MaxEntries
Procs == {1, 2}
\* The client of the specification that runs one operation at a time.
Client == CHOOSE p \in Procs : \A q \in Procs : p <= q
\* Start and end instants of a supply session.
Times == {1, 2, 3}
\* entryData.amount as passed by a caller of addWaterSupplyEntry.
Amounts == {-1, 0, 1, 2}
\* The amounts and paid flags the entry form passes: a rounded positive charge, unpaid.
FormAmounts == {1, 2}
FormPaid == {FALSE}
\* The customerId and the range the entry form passes: a customer picked from
\* the list, an end after the start (the form's schema refuses anything else).
FormCustomerIds == CustIds
FormRanges == {r \in Times \X Times : r[1] < r[2]}
\* The number NaN, which stands for itself among the integers of the model:
\* no sum of amounts comes near it.
NaN == -1000
\* paymentAmount as passed by a caller of recordPayment: a number, NaN included
\* (typeof NaN is 'number'), or a value whose typeof is not 'number'.
PayArgs == [isNumber : {TRUE}, val : {-1, 0, 1, 2, 3, NaN}] \cup {[isNumber |-> FALSE, val |-> 0]}
\* The amounts the payment dialog passes: a positive number.  (Its upper limit
\* is the pendingAmount the page shows, which may be out of date.)
FormPayments == [isNumber : {TRUE}, val : {1, 2}]
\* updateData as passed by a caller of updateWaterSupplyEntry, as far as the
\* fields amount and isPaid go: each is absent ({}) or present ({value}).
UpdateData == [amount : {{}, {1}, {2}}, isPaid : {{}, {TRUE}, {FALSE}}]
\* oldEntryData.amount and oldEntryData.isPaid as passed by the caller.
OldAmounts == {1, 2}
\* Instants passed to calculateCharge, in minutes (the forms give hours and
\* minutes), and the minutes of an hour.
Instants == {0, 1, 3, 150, 153}
MinutesPerHour == 60
\* cropChargeRates, the rate table of the crop-charge service.
CropChargeRates == [t \in {"Rice", "Wheat", "Sugarcane", "Cotton", "Vegetables", "Other"} |->
                       CASE t = "Rice" -> 200
                         [] t = "Wheat" -> 150
                         [] t = "Sugarcane" -> 180
                         [] t = "Cotton" -> 160
                         [] t = "Vegetables" -> 140
                         [] t = "Other" -> 130]
\* Names that every object literal inherits from Object.prototype: looked up
\* in the table they give a function, not undefined.
InheritedKeys == {"toString", "constructor"}
\* cropType as passed to calculateCharge: a configured crop, a crop without a
\* rate, the name of an inherited property.
CropTypes == DOMAIN CropChargeRates \cup {"Maize"} \cup InheritedKeys

Max(a, b) == IF a >= b THEN a ELSE b

\* Arithmetic and comparison of numbers as the language defines them: NaN
\* propagates through + and - and Math.max, every comparison with NaN is false,
\* and NaN is falsy.
JsAdd(a, b) == IF a = NaN \/ b = NaN THEN NaN ELSE a + b
JsSub(a, b) == IF a = NaN \/ b = NaN THEN NaN ELSE a - b
JsMax(a, b) == IF a = NaN \/ b = NaN THEN NaN ELSE Max(a, b)
JsLe(a, b) == a # NaN /\ b # NaN /\ a <= b
JsGe(a, b) == a # NaN /\ b # NaN /\ a >= b
OrZero(a) == IF a = NaN THEN 0 ELSE a

\* ------------------------------------------------------------- state
VARIABLES
    customers,   \* collection 'customers': id -> document
    entries,     \* collection 'waterSupplyEntries': id -> document
    tx,          \* per client: the operation in flight and what it has read/staged
    result,      \* what the call that returned last was, how it ended, and
                 \* the arguments of a call that ended without a write
    partialTaken,\* per customer: a recordPayment has committed after its else branch
    serial,      \* per customer: balances obtained by applying the committed
                 \* operations one after another, in commit order
    calls,       \* number of calls made so far
    page         \* the new-entry page: its form fields and calculation state

vars == <<customers, entries, tx, result, partialTaken, serial, calls, page>>
store == <<customers, entries>>

\* A document that does not exist (never created: "none"; deleted: "gone").
NoCustomer(st) == [st |-> st, totalPaid |-> 0, pendingAmount |-> 0]
NoEntry(st) == [st |-> st, customerId |-> NoId, entryTimestamp |-> 0, amount |-> 0, isPaid |-> FALSE]

\* addCustomer's newCustomerDoc.
NewCustomerDoc == [st |-> "live", totalPaid |-> 0, pendingAmount |-> 0]

Idle == [pc |-> "idle", cid |-> NoId, eid |-> 0, amt |-> 0, ts |-> 0, end |-> 0, paid |-> FALSE,
         rTotalPaid |-> 0, rPending |-> 0, rCustExists |-> FALSE,
         marked |-> {}, partial |-> FALSE, snap |-> {}, stale |-> FALSE,
         upd |-> [amount |-> {}, isPaid |-> {}], adj |-> 0]

\* What a call returns to its caller: res is "ok" or the kind of the Error
\* thrown; cid, x and y are arguments the call was made with.
Outcome(op, res, cid, x, y) == [op |-> op, res |-> res, cid |-> cid, x |-> x, y |-> y]
\* No call has returned since the last one was made.
Pending == Outcome("none", "none", NoId, 0, 0)
Done(op) == Outcome(op, "ok", NoId, 0, 0)
Failed(op, res) == Outcome(op, res, NoId, 0, 0)
Flag(b) == IF b THEN 1 ELSE 0

\* A check that takes every id for the id of a stored customer.
CustomerExists_Unchecked(c) == c \in CustIds

\* customerSnap.exists().
CustomerExists(c) == c \in CustIds /\ customers[c].st = "live"

\* A check that takes every entry id for the id of a stored entry.
EntryExists_Unchecked(e) == e \in EntryIds

\* entrySnap.exists().
EntryExists(e) == e \in EntryIds /\ entries[e].st = "live"

\* The entries of customer c that are stored and unpaid.
UnpaidOf(c) == {e \in EntryIds : entries[e].st = "live" /\ entries[e].customerId = c /\ ~entries[e].isPaid}

\* A query that finds only the unpaid entries of customer c.
EntriesOf_UnpaidOnly(c) == UnpaidOf(c)

\* deleteCustomer's entriesQuery: the stored entries whose customerId is c.
EntriesOf(c) == {e \in EntryIds : entries[e].st = "live" /\ entries[e].customerId = c}

\* getCustomerSupplyHistory(c), as the set of the documents in the list it
\* returns: the stored entries whose customerId is c that have every field.
\* (Every document addWaterSupplyEntry writes has every field.)
GetCustomerSupplyHistory(c) ==
    {e \in EntryIds : entries[e].st # "none" /\ entries[e].st # "gone" /\ entries[e].customerId = c}

RECURSIVE SumAmount(_)
SumAmount(S) == IF S = {} THEN 0
                ELSE LET e == CHOOSE x \in S : TRUE
                     IN entries[e].amount + SumAmount(S \ {e})

\* The new-entry page when it is mounted (useState and useForm defaults): no
\* time and no crop chosen, no amount calculated, and the calculation effect
\* of the first render has set its debounce timer.  A field is the set of the
\* value chosen, empty when none is; calculatedAmount is empty when null.
\* seen is the calculatedAmount of the render whose effect set the timer;
\* inFlight holds the arguments of a calculateCharge call that has not returned.
NewEntryPage ==
    [customerId |-> {}, start |-> {}, end |-> {}, cropType |-> {},
     calculatedAmount |-> {}, isCalculating |-> FALSE,
     timer |-> TRUE, seen |-> {}, inFlight |-> {}, sent |-> {}]

Init ==
    /\ customers = [c \in CustIds |-> NoCustomer("none")]
    /\ entries = [e \in EntryIds |-> NoEntry("none")]
    /\ tx = [p \in Procs |-> Idle]
    /\ result = Pending
    /\ partialTaken = [c \in CustIds |-> FALSE]
    /\ serial = [c \in CustIds |-> [totalPaid |-> 0, pendingAmount |-> 0]]
    /\ calls = 0
    /\ page = NewEntryPage

AllIdle == \A p \in Procs : tx[p].pc = "idle"

\* ------------------------------------------------------------- addCustomer
\* addCustomer: argument check, then addDoc of a document with zero balances
\* under a fresh auto-generated id.
AddCustomer(p) ==
    /\ tx[p].pc = "idle"
    /\ \E valid \in BOOLEAN :
         IF ~valid
         THEN /\ result' = Failed("addCustomer", "InvalidArgs")
              /\ UNCHANGED <<customers, serial>>
         ELSE /\ \E c \in CustIds :
                   /\ customers[c].st = "none"
                   /\ customers' = [customers EXCEPT ![c] = NewCustomerDoc]
                   /\ serial' = [serial EXCEPT ![c] = [totalPaid |-> 0, pendingAmount |-> 0]]
              /\ result' = Done("addCustomer")
    /\ UNCHANGED <<entries, tx, partialTaken>>

\* A store that accepts every commit, whatever has been written since the
\* transaction's reads.
CommitAccepted_Unchecked(p) == TRUE

\* runTransaction: the store accepts the commit only if no document the
\* transaction has read was written since.
CommitAccepted(p) == ~tx[p].stale

\* Every other client that has read a document written by this commit will
\* have its own commit refused (optimistic concurrency of runTransaction).
MarkStale(p, cs, es) ==
    [q \in Procs |->
        IF q = p THEN Idle
        ELSE IF \/ tx[q].pc \in {"add_commit", "pay_query", "pay_commit", "upd_commit"} /\ tx[q].cid \in cs
                \/ tx[q].pc = "del_commit" /\ tx[q].eid \in es
                \/ tx[q].pc = "del_commit" /\ tx[q].rCustExists /\ tx[q].cid \in cs
             THEN [tx[q] EXCEPT !.stale = TRUE]
             ELSE tx[q]]

\* ------------------------------------------------------------- addWaterSupplyEntry
\* A faulty newPendingAmount that adds the amount of an entry created paid.
AddEntryNewPending_AlwaysAdds(isPaid, currentPendingAmount, amount) ==
    JsAdd(currentPendingAmount, amount)

\* newPendingAmount of addWaterSupplyEntry.
AddEntryNewPending(isPaid, currentPendingAmount, amount) ==
    IF isPaid THEN currentPendingAmount ELSE JsAdd(currentPendingAmount, amount)

\* newEntryDocData of addWaterSupplyEntry.
NewEntryDocData(c, start, amount, isPaid) ==
    [st |-> "live", customerId |-> c, entryTimestamp |-> start, amount |-> amount, isPaid |-> isPaid]

\* A range check that lets every pair of instants through.
InvalidRange_Unchecked(startDateTime, endDateTime) == FALSE

\* entryData.endDateTime <= entryData.startDateTime.
InvalidRange(startDateTime, endDateTime) == endDateTime <= startDateTime

\* The call: the check of the required fields, the check of the range, then
\* the transaction's read of the customer.
AddEntryCall(p, customerIds, ranges, amounts, paidFlags) ==
    /\ tx[p].pc = "idle"
    /\ \E e \in EntryIds : entries[e].st = "none"
    /\ \E c \in customerIds, range \in ranges :
         LET start == range[1]
             end == range[2]
         IN
         IF c = NoId
         THEN result' = Outcome("addWaterSupplyEntry", "InvalidArgs", c, start, end) /\ UNCHANGED tx
         ELSE IF InvalidRange(start, end)
              THEN result' = Outcome("addWaterSupplyEntry", "InvalidRange", c, start, end) /\ UNCHANGED tx
              ELSE IF ~CustomerExists(c)
              THEN result' = Outcome("addWaterSupplyEntry", "CustomerNotFound", c, start, end) /\ UNCHANGED tx
              ELSE \E amount \in amounts, isPaid \in paidFlags :
                   /\ tx' = [tx EXCEPT ![p] = [Idle EXCEPT !.pc = "add_commit", !.cid = c, !.amt = amount,
                                                          !.ts = start, !.end = end, !.paid = isPaid,
                                                          !.rPending = OrZero(customers[c].pendingAmount)]]
                   /\ result' = Pending
    /\ UNCHANGED <<customers, entries, partialTaken, serial>>

\* doc(entryCollection): the reference of a document that does not exist yet.
\* Ids are handed out in increasing order and never used again.
NewEntryRef == CHOOSE e \in EntryIds : entries[e].st = "none" /\ \A x \in EntryIds : entries[x].st = "none" => e <= x

\* The commit: the customer update and the new entry document, atomically.
AddEntryCommit(p) ==
    /\ tx[p].pc = "add_commit"
    /\ CommitAccepted(p)
    /\ \E e \in EntryIds : entries[e].st = "none"
    /\ LET c == tx[p].cid
           e == NewEntryRef
       IN /\ customers' = [customers EXCEPT ![c].pendingAmount =
                              AddEntryNewPending(tx[p].paid, tx[p].rPending, tx[p].amt)]
          /\ entries' = [entries EXCEPT ![e] = NewEntryDocData(c, tx[p].ts, tx[p].amt, tx[p].paid)]
          /\ serial' = [serial EXCEPT ![c].pendingAmount =
                              IF tx[p].paid THEN OrZero(@) ELSE JsAdd(OrZero(@), tx[p].amt)]
          /\ tx' = MarkStale(p, {c}, {})
    /\ result' = Done("addWaterSupplyEntry")
    /\ UNCHANGED partialTaken

\* ------------------------------------------------------------- recordPayment
\* getDocs(unpaidEntriesQuery): the customer's unpaid entries by entryTimestamp
\* ascending.  Documents with equal timestamps come in the order of their
\* auto-generated ids, which is any order: every order is a possible result.
RECURSIVE OldestFirst(_)
OldestFirst(S) ==
    IF S = {} THEN { << >> }
    ELSE UNION { { << [id |-> m, amount |-> entries[m].amount] >> \o rest : rest \in OldestFirst(S \ {m}) } :
                 m \in { x \in S : \A y \in S : entries[x].entryTimestamp <= entries[y].entryTimestamp } }

\* A faulty loop that goes on past an entry it cannot cover and flags newer
\* entries that fit.
RECURSIVE ApplyPayment_SkipsUncovered(_, _, _, _)
ApplyPayment_SkipsUncovered(docs, i, remainingAmountToApply, marked) ==
    IF i > Len(docs) \/ JsLe(remainingAmountToApply, 0)
    THEN [marked |-> marked, partial |-> FALSE]
    ELSE IF docs[i].amount <= 0 \/ ~JsGe(remainingAmountToApply, docs[i].amount)
    THEN ApplyPayment_SkipsUncovered(docs, i + 1, remainingAmountToApply, marked)
    ELSE ApplyPayment_SkipsUncovered(docs, i + 1, remainingAmountToApply - docs[i].amount,
                                     marked \cup {docs[i].id})

\* A faulty loop that does not take the amount of a flagged entry off what
\* remains to apply.
RECURSIVE ApplyPayment_NoDeduction(_, _, _, _)
ApplyPayment_NoDeduction(docs, i, remainingAmountToApply, marked) ==
    IF i > Len(docs) \/ JsLe(remainingAmountToApply, 0)
    THEN [marked |-> marked, partial |-> FALSE]
    ELSE IF docs[i].amount <= 0
    THEN ApplyPayment_NoDeduction(docs, i + 1, remainingAmountToApply, marked)
    ELSE IF JsGe(remainingAmountToApply, docs[i].amount)
    THEN ApplyPayment_NoDeduction(docs, i + 1, remainingAmountToApply, marked \cup {docs[i].id})
    ELSE [marked |-> marked, partial |-> TRUE]

\* The loop over unpaidEntriesSnap.docs, from document i on.
RECURSIVE ApplyPayment(_, _, _, _)
ApplyPayment(docs, i, remainingAmountToApply, marked) ==
    IF i > Len(docs) \/ JsLe(remainingAmountToApply, 0)
    THEN [marked |-> marked, partial |-> FALSE]
    ELSE LET entryAmount == docs[i].amount IN
         IF entryAmount <= 0
         THEN ApplyPayment(docs, i + 1, remainingAmountToApply, marked)
         ELSE IF JsGe(remainingAmountToApply, entryAmount)
         THEN ApplyPayment(docs, i + 1, remainingAmountToApply - entryAmount, marked \cup {docs[i].id})
         ELSE [marked |-> marked, partial |-> TRUE]

\* A faulty newTotalPaid that replaces the total by the payment.
NewTotalPaid_Overwrites(currentTotalPaid, paymentAmount) == paymentAmount

\* A faulty newPendingAmount without Math.max(0, ...).
NewPendingAmount_NoClamp(currentPendingAmount, paymentAmount) ==
    JsSub(currentPendingAmount, paymentAmount)

\* newTotalPaid and newPendingAmount of recordPayment.
NewTotalPaid(currentTotalPaid, paymentAmount) == JsAdd(currentTotalPaid, paymentAmount)
NewPendingAmount(currentPendingAmount, paymentAmount) == JsMax(0, JsSub(currentPendingAmount, paymentAmount))

\* The argument check of recordPayment.
InvalidPaymentArgs(customerId, paymentAmount) ==
    customerId = NoId \/ ~paymentAmount.isNumber \/ JsLe(paymentAmount.val, 0)

\* A recordPayment that leaves the isPaid flags out of its transaction.
MarkPaid_Dropped(marked) == entries

\* transaction.update(entryDoc.ref, { isPaid: true }) for the covered entries.
MarkPaid(marked) ==
    [e \in EntryIds |-> IF e \in marked THEN [entries[e] EXCEPT !.isPaid = TRUE] ELSE entries[e]]

\* The call: argument check, then the transaction's read of the customer.
RecordPaymentCall(p, payArgs) ==
    /\ tx[p].pc = "idle"
    /\ \E c \in CustIds \cup {NoId}, a \in payArgs :
         IF InvalidPaymentArgs(c, a)
         THEN result' = Outcome("recordPayment", "InvalidArgs", c, a.val, Flag(a.isNumber)) /\ UNCHANGED tx
         ELSE IF ~CustomerExists(c)
         THEN result' = Outcome("recordPayment", "CustomerNotFound", c, a.val, Flag(a.isNumber)) /\ UNCHANGED tx
         ELSE /\ tx' = [tx EXCEPT ![p] = [Idle EXCEPT !.pc = "pay_query", !.cid = c, !.amt = a.val,
                                                     !.rTotalPaid = customers[c].totalPaid,
                                                     !.rPending = customers[c].pendingAmount]]
              /\ result' = Pending
    /\ UNCHANGED <<customers, entries, partialTaken, serial>>

\* getDocs of the unpaid entries (not a read of the transaction) and the loop
\* that stages { isPaid: true } for the entries the payment covers.
RecordPaymentQuery(p) ==
    /\ tx[p].pc = "pay_query"
    /\ \E docs \in OldestFirst(UnpaidOf(tx[p].cid)) :
         LET walk == ApplyPayment(docs, 1, tx[p].amt, {})
         IN tx' = [tx EXCEPT ![p].pc = "pay_commit", ![p].snap = UnpaidOf(tx[p].cid),
                             ![p].marked = walk.marked, ![p].partial = walk.partial]
    /\ UNCHANGED <<customers, entries, result, partialTaken, serial>>

\* The commit: the customer's new totals and every staged isPaid flag,
\* atomically.  update() of a document that no longer exists fails the commit.
RecordPaymentCommit(p) ==
    /\ tx[p].pc = "pay_commit"
    /\ CommitAccepted(p)
    /\ LET c == tx[p].cid IN
       IF \A e \in tx[p].marked : EntryExists(e)
       THEN /\ customers' = [customers EXCEPT ![c].totalPaid = NewTotalPaid(tx[p].rTotalPaid, tx[p].amt),
                                               ![c].pendingAmount = NewPendingAmount(tx[p].rPending, tx[p].amt)]
            /\ entries' = MarkPaid(tx[p].marked)
            /\ partialTaken' = [partialTaken EXCEPT ![c] = @ \/ tx[p].partial]
            /\ serial' = [serial EXCEPT ![c].totalPaid = JsAdd(@, tx[p].amt),
                                        ![c].pendingAmount = JsMax(0, JsSub(@, tx[p].amt))]
            /\ tx' = MarkStale(p, {c}, tx[p].marked)
            /\ result' = Done("recordPayment")
       ELSE /\ result' = Failed("recordPayment", "TxFailed")
            /\ tx' = [tx EXCEPT ![p] = Idle]
            /\ UNCHANGED <<customers, entries, partialTaken, serial>>

\* ------------------------------------------------------------- deleteWaterSupplyEntry
\* Whether the client accepts transaction.get once the transaction has staged
\* a write: it does not ("Firestore transactions require all reads to be
\* executed before all writes").
ReadAfterWriteAllowed == FALSE

\* The transactional accesses (transaction.get, update, set, delete) the
\* update function of each operation issues, in the order of the code.
\* addWaterSupplyEntry: the customer is read and updated, the entry is set.
AddEntryAccesses == << "get", "update", "set" >>
\* recordPayment: the customer is read and updated, and each entry marked is
\* updated (the unpaid entries come from getDocs, outside the transaction).
RecordPaymentAccesses(marked) == << "get", "update" >> \o [i \in 1..Cardinality(marked) |-> "update"]
\* updateWaterSupplyEntry: the customer is read, the entry is updated, and the
\* customer as well when the adjustment is not 0.
UpdateEntryAccesses(pendingAmountAdjustment) ==
    << "get", "update" >> \o (IF pendingAmountAdjustment # 0 THEN << "update" >> ELSE << >>)
\* deleteWaterSupplyEntry on an entry that exists: the entry is read and
\* deleted; if it is unpaid the customer is read and, when found, updated.
DeleteEntryAccesses(isPaid, customerExists) ==
    << "get", "delete" >>
       \o (IF isPaid THEN << >>
           ELSE << "get" >> \o (IF customerExists THEN << "update" >> ELSE << >>))

\* No transaction.get comes after a write.
ReadsBeforeWrites(accesses) ==
    \A i, j \in 1..Len(accesses) : i < j /\ accesses[j] = "get" => accesses[i] = "get"

\* The call: argument check, the transaction's read of the entry, the staged
\* delete and, for an unpaid entry, the read of the customer.
DeleteEntryCall(p) ==
    /\ tx[p].pc = "idle"
    /\ \E e \in {x \in EntryIds : entries[x].st # "none"} \cup {0} :
         IF e = 0
         THEN result' = Failed("deleteWaterSupplyEntry", "InvalidArgs") /\ UNCHANGED tx
         ELSE \E passedIsPaid \in BOOLEAN :
              IF ~EntryExists(e)
              THEN result' = Outcome("deleteWaterSupplyEntry", "ok", NoId, e, Flag(passedIsPaid)) /\ UNCHANGED tx
              ELSE LET isPaid == entries[e].isPaid
                       entryAmount == entries[e].amount
                       c == entries[e].customerId
                   IN IF ~ReadsBeforeWrites(DeleteEntryAccesses(isPaid, CustomerExists(c))) /\ ~ReadAfterWriteAllowed
                      THEN result' = Outcome("deleteWaterSupplyEntry", "TxFailed", NoId, e, Flag(passedIsPaid))
                           /\ UNCHANGED tx
                      ELSE /\ tx' = [tx EXCEPT ![p] = [Idle EXCEPT !.pc = "del_commit", !.eid = e, !.cid = c,
                                                                  !.paid = isPaid, !.amt = entryAmount,
                                                                  !.rCustExists = ~isPaid /\ CustomerExists(c),
                                                                  !.rPending = IF ~isPaid /\ CustomerExists(c)
                                                                               THEN OrZero(customers[c].pendingAmount)
                                                                               ELSE 0]]
                           /\ result' = Pending
    /\ UNCHANGED <<customers, entries, partialTaken, serial>>

\* The commit: the entry's deletion and, if it was unpaid and its customer was
\* found, the customer's reduced pendingAmount.
DeleteEntryCommit(p) ==
    /\ tx[p].pc = "del_commit"
    /\ CommitAccepted(p)
    /\ LET c == tx[p].cid
           adjust == ~tx[p].paid /\ tx[p].rCustExists
       IN /\ entries' = [entries EXCEPT ![tx[p].eid] = NoEntry("gone")]
          /\ customers' = IF adjust
                          THEN [customers EXCEPT ![c].pendingAmount = JsMax(0, JsSub(tx[p].rPending, tx[p].amt))]
                          ELSE customers
          /\ serial' = IF adjust
                       THEN [serial EXCEPT ![c].pendingAmount = JsMax(0, JsSub(OrZero(@), tx[p].amt))]
                       ELSE serial
          /\ tx' = MarkStale(p, IF adjust THEN {c} ELSE {}, {tx[p].eid})
    /\ result' = Done("deleteWaterSupplyEntry")
    /\ UNCHANGED partialTaken

\* ------------------------------------------------------------- updateWaterSupplyEntry
\* field ?? fallback, for a field that is absent ({}) or present ({value}).
Coalesce(field, fallback) == IF field = {} THEN fallback ELSE CHOOSE v \in field : TRUE

\* pendingAmountAdjustment of updateWaterSupplyEntry.
PendingAmountAdjustment(oldAmount, oldIsPaid, newAmount, newIsPaid) ==
    IF oldIsPaid /\ newIsPaid THEN 0
    ELSE IF ~oldIsPaid /\ ~newIsPaid THEN newAmount - oldAmount
    ELSE IF oldIsPaid /\ ~newIsPaid THEN newAmount
    ELSE 0 - oldAmount

\* The call: argument checks, the transaction's read of the customer named by
\* oldEntryData, the adjustment computed from updateData and oldEntryData.
UpdateEntryCall(p) ==
    /\ tx[p].pc = "idle"
    /\ \E e \in {x \in EntryIds : entries[x].st # "none"} \cup {0}, updateData \in UpdateData,
          c \in CustIds \cup {NoId}, oldAmount \in OldAmounts, oldIsPaid \in BOOLEAN :
         IF e = 0 \/ (updateData.amount = {} /\ updateData.isPaid = {})
         THEN result' = Outcome("updateWaterSupplyEntry", "InvalidArgs", c, e, 0) /\ UNCHANGED tx
         ELSE IF c = NoId
         THEN result' = Outcome("updateWaterSupplyEntry", "MissingOldData", c, e, 0) /\ UNCHANGED tx
         ELSE IF ~CustomerExists(c)
         THEN result' = Outcome("updateWaterSupplyEntry", "CustomerNotFound", c, e, 0) /\ UNCHANGED tx
         ELSE LET newAmount == Coalesce(updateData.amount, oldAmount)
                  newIsPaid == Coalesce(updateData.isPaid, oldIsPaid)
              IN /\ tx' = [tx EXCEPT ![p] = [Idle EXCEPT !.pc = "upd_commit", !.eid = e, !.cid = c,
                                                         !.upd = updateData,
                                                         !.adj = PendingAmountAdjustment(oldAmount, oldIsPaid,
                                                                                         newAmount, newIsPaid),
                                                         !.rPending = OrZero(customers[c].pendingAmount)]]
                 /\ result' = Pending
    /\ UNCHANGED <<customers, entries, partialTaken, serial>>

\* transaction.update(entryRef, finalUpdateData): the fields present in
\* updateData replace those of the document.
FinalUpdateData(doc, updateData) ==
    [doc EXCEPT !.amount = Coalesce(updateData.amount, @), !.isPaid = Coalesce(updateData.isPaid, @)]

\* The commit: the entry's new fields and, when the adjustment is not 0, the
\* customer's pendingAmount, atomically.  update() of a document that does not
\* exist fails the commit.
UpdateEntryCommit(p) ==
    /\ tx[p].pc = "upd_commit"
    /\ CommitAccepted(p)
    /\ LET c == tx[p].cid
           e == tx[p].eid
       IN IF EntryExists(e)
          THEN /\ entries' = [entries EXCEPT ![e] = FinalUpdateData(@, tx[p].upd)]
               /\ customers' = IF tx[p].adj # 0
                               THEN [customers EXCEPT ![c].pendingAmount = JsMax(0, JsAdd(tx[p].rPending, tx[p].adj))]
                               ELSE customers
               /\ serial' = IF tx[p].adj # 0
                            THEN [serial EXCEPT ![c].pendingAmount = JsMax(0, JsAdd(OrZero(@), tx[p].adj))]
                            ELSE serial
               /\ tx' = MarkStale(p, IF tx[p].adj # 0 THEN {c} ELSE {}, {e})
               /\ result' = Done("updateWaterSupplyEntry")
          ELSE /\ result' = Failed("updateWaterSupplyEntry", "TxFailed")
               /\ tx' = [tx EXCEPT ![p] = Idle]
               /\ UNCHANGED <<customers, entries, serial>>
    /\ UNCHANGED partialTaken

\* ------------------------------------------------------------- deleteCustomer
\* The call: argument check, getDoc of the customer, batch.delete of it, and
\* getDocs of the entries that reference it.
DeleteCustomerCall(p) ==
    /\ tx[p].pc = "idle"
    /\ \E c \in CustIds \cup {NoId} :
         IF c = NoId
         THEN result' = Failed("deleteCustomer", "InvalidArgs") /\ UNCHANGED tx
         ELSE IF ~CustomerExists(c)
         THEN result' = Outcome("deleteCustomer", "ok", c, 0, 0) /\ UNCHANGED tx
         ELSE /\ tx' = [tx EXCEPT ![p] = [Idle EXCEPT !.pc = "dc_commit", !.cid = c, !.snap = EntriesOf(c)]]
              /\ result' = Pending
    /\ UNCHANGED <<customers, entries, partialTaken, serial>>

\* batch.commit(): the customer and the entries found by the query are deleted.
DeleteCustomerCommit(p) ==
    /\ tx[p].pc = "dc_commit"
    /\ LET c == tx[p].cid IN
       /\ customers' = [customers EXCEPT ![c] = NoCustomer("gone")]
       /\ entries' = [e \in EntryIds |-> IF e \in tx[p].snap THEN NoEntry("gone") ELSE entries[e]]
       /\ partialTaken' = [partialTaken EXCEPT ![c] = FALSE]
       /\ serial' = [serial EXCEPT ![c] = [totalPaid |-> 0, pendingAmount |-> 0]]
       /\ tx' = MarkStale(p, {c}, tx[p].snap)
    /\ result' = Done("deleteCustomer")

\* ------------------------------------------------------------- calculateCharge
\* cropChargeRates[key]: the number stored under an own key, the function
\* inherited under a name of Object.prototype, undefined otherwise.
RateProperty(key) ==
    IF key \in DOMAIN CropChargeRates THEN [type |-> "number", val |-> CropChargeRates[key]]
    ELSE IF key \in InheritedKeys THEN [type |-> "function", val |-> NaN]
    ELSE [type |-> "undefined", val |-> 0]

\* getCropCharge(cropType).chargePerHour: the rate found, or the rate of
\* "Other" when the lookup gives undefined (??).
GetCropCharge(cropType) ==
    IF RateProperty(cropType).type = "undefined" THEN RateProperty("Other") ELSE RateProperty(cropType)

\* Math.round of the quotient num / den of naturals: the nearest integer, a
\* half going up.
MathRound(num, den) == (2 * num + den) \div (2 * den)

\* roundedAmount of calculateCharge for a duration in minutes: durationHours
\* times chargePerHour, rounded; a factor that is not a number makes it NaN.
RoundedAmount(durationMinutes, chargePerHour) ==
    IF chargePerHour.type = "number"
    THEN MathRound(durationMinutes * chargePerHour.val, MinutesPerHour)
    ELSE NaN

\* calculateCharge(startDateTime, endDateTime, cropType): the checks of the
\* dates and of the range, the rate of the crop, the rounded amount.  It reads
\* the rate table and touches no document.
CalculateCharge(p) ==
    /\ tx[p].pc = "idle"
    /\ \E validDates \in BOOLEAN, startDateTime \in Instants, endDateTime \in Instants, cropType \in CropTypes :
         LET durationMinutes == endDateTime - startDateTime
         IN result' =
              IF ~validDates
              THEN Outcome("calculateCharge", "InvalidDate", cropType, 0, 0)
              ELSE IF endDateTime <= startDateTime
              THEN Outcome("calculateCharge", "InvalidRange", cropType, durationMinutes, 0)
              ELSE IF GetCropCharge(cropType).type = "undefined"
              THEN Outcome("calculateCharge", "RateMissing", cropType, durationMinutes, 0)
              ELSE Outcome("calculateCharge", "ok", cropType, durationMinutes,
                           RoundedAmount(durationMinutes, GetCropCharge(cropType)))
    /\ UNCHANGED <<customers, entries, tx, partialTaken, serial>>

\* ------------------------------------------------------------- dashboard
\* The reads of getDashboardData that the store can fail: the getDocs of
\* today's entries, getAggregateFromServer and the fallback getDocs inside
\* aggregateSumForPeriod, and the getDocs of the recent entries.  A read that
\* is down fails each time one invocation issues it.
StoreReads == {"todayEntries", "getAggregateFromServer", "fallbackGetDocs", "recentActivity"}

\* startDate and endDate of aggregateSumForPeriod: each the set of the date
\* given, empty when undefined.
Period(startDate, endDate) == [startDate |-> startDate, endDate |-> endDate]

\* The instants modelled are one per day, all in the current month and year:
\* startOfMonth/startOfYear/six months ago lie at or before the first, and
\* endOfMonth/endOfYear at or after the last.
FirstInstant == CHOOSE t \in Times : \A u \in Times : t <= u
LastInstant == CHOOSE t \in Times : \A u \in Times : u <= t

\* periodQuery: the documents of the collection whose entryTimestamp passes
\* the >= startDate and <= endDate filters that are given, with the value of
\* the field in each.  (A customer document has no entryTimestamp.)
PeriodQuery(collectionName, fieldName, period) ==
    IF collectionName = "customers"
    THEN [c \in {x \in CustIds : CustomerExists(x) /\ period.startDate = {} /\ period.endDate = {}}
            |-> customers[c][fieldName]]
    ELSE [e \in {x \in EntryIds : /\ EntryExists(x)
                                  /\ \A d \in period.startDate : entries[x].entryTimestamp >= d
                                  /\ \A d \in period.endDate : entries[x].entryTimestamp <= d}
            |-> entries[e][fieldName]]

\* The sum of the values of the documents ids, as += and the server's sum()
\* make it: NaN as soon as one value is NaN.
RECURSIVE SumOf(_, _)
SumOf(vals, ids) ==
    IF ids = {} THEN 0
    ELSE LET i == CHOOSE x \in ids : TRUE
         IN JsAdd(vals[i], SumOf(vals, ids \ {i}))

\* snapshot.data().total of getAggregateFromServer(periodQuery, {total: sum(fieldName)}).
ServerSum(vals) == SumOf(vals, DOMAIN vals)

\* The fallback loop: the values that are numbers and not NaN are added up.
ManualSum(vals) == SumOf(vals, {i \in DOMAIN vals : vals[i] # NaN})

\* aggregateSumForPeriod: total || 0 of the aggregation; when that throws, the
\* manual sum over getDocs(periodQuery); when that throws too, 0.
AggregateSumForPeriod(collectionName, fieldName, period, down) ==
    LET vals == PeriodQuery(collectionName, fieldName, period)
    IN IF "getAggregateFromServer" \notin down THEN OrZero(ServerSum(vals))
       ELSE IF "fallbackGetDocs" \notin down THEN ManualSum(vals)
       ELSE 0

\* getDashboardData on the day of instant today: today's revenue from the
\* documents read, the five aggregate sums, the recent entries; a getDocs of
\* its own that throws makes the call throw.  (durationHours and the fields
\* listed in recentActivity are not part of the documents modelled.)
GetDashboardData(p) ==
    /\ tx[p].pc = "idle"
    /\ \E today \in Times, down \in SUBSET StoreReads :
         LET todayDocs == PeriodQuery("waterSupplyEntries", "amount", Period({today}, {today}))
             data == [todayRevenue |-> SumOf(todayDocs, DOMAIN todayDocs),
                      pendingAmount |->
                         AggregateSumForPeriod("customers", "pendingAmount", Period({}, {}), down),
                      monthlyRevenue |->
                         AggregateSumForPeriod("waterSupplyEntries", "amount",
                                               Period({FirstInstant}, {LastInstant}), down),
                      sixMonthRevenue |->
                         AggregateSumForPeriod("waterSupplyEntries", "amount",
                                               Period({FirstInstant}, {today}), down),
                      yearlyRevenue |->
                         AggregateSumForPeriod("waterSupplyEntries", "amount",
                                               Period({FirstInstant}, {LastInstant}), down),
                      totalRevenue |->
                         AggregateSumForPeriod("waterSupplyEntries", "amount", Period({}, {today}), down)]
         IN result' =
              IF "todayEntries" \in down \/ "recentActivity" \in down
              THEN [op |-> "getDashboardData", res |-> "FetchFailed", cid |-> NoId, x |-> today, y |-> 0,
                    down |-> down]
              ELSE [op |-> "getDashboardData", res |-> "ok", cid |-> NoId, x |-> today, y |-> 0,
                    down |-> down, data |-> data]
    /\ UNCHANGED <<customers, entries, tx, partialTaken, serial>>

\* ------------------------------------------------------------- reports
\* ReportFilters: customerId undefined ({}), 'all' or a customer's id;
\* startDate and endDate undefined or a day.
ReportFilters == [customerId : {{}, {"all"}} \cup {{c} : c \in CustIds},
                  startDate : {{}} \cup {{t} : t \in Times},
                  endDate : {{}} \cup {{t} : t \in Times}]

\* A query that leaves the customer filter out.
EntriesQuery_AnyCustomer(filters) ==
    {e \in EntryIds : /\ EntryExists(e)
                      /\ \A d \in filters.startDate : entries[e].entryTimestamp >= d
                      /\ \A d \in filters.endDate : entries[e].entryTimestamp <= d}

\* entriesQuery of getFilteredEntries: the entries of the customer, unless
\* the filter is absent or 'all', whose entryTimestamp lies from the start of
\* startDate to the end of endDate, as far as these are given.
EntriesQuery(filters) ==
    {e \in EntryIds : /\ EntryExists(e)
                      /\ \A c \in filters.customerId : c # "all" => entries[e].customerId = c
                      /\ \A d \in filters.startDate : entries[e].entryTimestamp >= d
                      /\ \A d \in filters.endDate : entries[e].entryTimestamp <= d}

\* orderBy('entryTimestamp', 'desc'): every order of the documents in which
\* no entry comes before one with a later entryTimestamp.
RECURSIVE NewestFirst(_)
NewestFirst(S) ==
    IF S = {} THEN { << >> }
    ELSE UNION { { << m >> \o rest : rest \in NewestFirst(S \ {m}) } :
                 m \in { x \in S : \A y \in S : entries[x].entryTimestamp >= entries[y].entryTimestamp } }

\* getFilteredEntries: the documents of the query, each with the fields the
\* report uses.  (Every document addWaterSupplyEntry stores is complete, so
\* none is dropped.)
GetFilteredEntries(filters) ==
    { [i \in 1..Len(ids) |-> [customerId |-> entries[ids[i]].customerId,
                              entryTimestamp |-> entries[ids[i]].entryTimestamp,
                              amount |-> entries[ids[i]].amount,
                              isPaid |-> entries[ids[i]].isPaid]] :
      ids \in NewestFirst(EntriesQuery(filters)) }

\* headers.join(',').
Headers == "Start Date,End Date,Customer,Start Time,End Time,Duration (hrs),Crop Type,Amount (INR),Status"

\* One row of the CSV: the start date, the customer, the amount and the
\* status of the entry.
CsvRow(entry) ==
    [startDate |-> entry.entryTimestamp, customer |-> entry.customerId,
     amount |-> entry.amount, status |-> IF entry.isPaid THEN "Paid" ELSE "Pending"]

\* csvContent as its lines: the header, then the rows in the order of the data.
CsvContent(dataToExport) == << Headers >> \o [i \in 1..Len(dataToExport) |-> CsvRow(dataToExport[i])]

\* exportEntries(filters): the filtered entries are fetched; none gives the
\* error 'No data to export for the selected filters.', rethrown with the
\* prefix 'Failed to export report: '; otherwise the Blob of the CSV.  A
\* getDocs that fails is rethrown with the same prefix.
ExportEntries(p) ==
    /\ tx[p].pc = "idle"
    /\ \E filters \in ReportFilters, down \in BOOLEAN :
         IF down
         THEN result' = [op |-> "exportEntries", res |-> "FetchFailed", cid |-> NoId, x |-> 0, y |-> 0,
                         filters |-> filters, blob |-> {}]
         ELSE \E dataToExport \in GetFilteredEntries(filters) :
                result' = IF Len(dataToExport) = 0
                          THEN [op |-> "exportEntries", res |-> "NoDataToExport", cid |-> NoId,
                                x |-> 0, y |-> 0, filters |-> filters, blob |-> {}]
                          ELSE [op |-> "exportEntries", res |-> "ok", cid |-> NoId,
                                x |-> 0, y |-> 0, filters |-> filters,
                                blob |-> {CsvContent(dataToExport)}]
    /\ UNCHANGED <<customers, entries, tx, partialTaken, serial>>

\* ------------------------------------------------------------- new-entry page
\* The instants (minutes) the date and time pickers are set to, and the crop
\* types the select offers (two of getAvailableCropTypes()).
FormInstants == {0, 60, 120}
\* The number of submissions of the form that are followed.
MaxSubmits == 2
FormCropTypes == {"Rice", "Wheat"}

\* The start, end and crop checks at the head of calculate: both instants
\* chosen, a crop selected, and the end after the start.
CalculationInputsValid(pg) ==
    /\ pg.start # {} /\ pg.end # {} /\ pg.cropType # {}
    /\ \A s \in pg.start, e \in pg.end : e > s

\* isValid of entryFormSchema: every field filled, and the end after the start.
IsValid(pg) ==
    /\ pg.customerId # {} /\ pg.start # {} /\ pg.end # {} /\ pg.cropType # {}
    /\ \A s \in pg.start, e \in pg.end : e > s

\* The user sets one field to another value (the inputs are disabled while
\* the mutation is pending).  A change of a watched field re-runs the
\* calculation effect: its cleanup clears the debounce timer, and a new timer
\* is set whose calculate sees the calculatedAmount of this render.
\* calculatedAmount and isCalculating stay as they are.
ChangeField(p) ==
    /\ tx[p].pc = "idle"
    /\ \/ \E c \in {x \in CustIds : CustomerExists(x)} :
            /\ page.customerId # {c}
            /\ page' = [page EXCEPT !.customerId = {c}]
       \/ \E t \in FormInstants :
            /\ page.start # {t}
            /\ page' = [page EXCEPT !.start = {t}, !.timer = TRUE, !.seen = page.calculatedAmount]
       \/ \E t \in FormInstants :
            /\ page.end # {t}
            /\ page' = [page EXCEPT !.end = {t}, !.timer = TRUE, !.seen = page.calculatedAmount]
       \/ \E k \in FormCropTypes :
            /\ page.cropType # {k}
            /\ page' = [page EXCEPT !.cropType = {k}, !.timer = TRUE, !.seen = page.calculatedAmount]
    /\ UNCHANGED <<customers, entries, tx, result, partialTaken, serial>>

\* The debounce timer fires and calculate runs up to its await: with inputs
\* that fail the checks it clears the amount its render saw; otherwise it sets
\* isCalculating, clears the amount and calls calculateCharge with the values
\* watched.  A timer set 350 ms ago fires after the 50 ms of a calculateCharge
\* call that an earlier timer started, so no call is in flight.
Calculate(p) ==
    /\ page.timer
    /\ page.inFlight = {}
    /\ page' = IF ~CalculationInputsValid(page)
               THEN [page EXCEPT !.timer = FALSE,
                                 !.calculatedAmount = IF page.seen # {} THEN {} ELSE @]
               ELSE [page EXCEPT !.timer = FALSE, !.isCalculating = TRUE, !.calculatedAmount = {},
                                 !.inFlight = {[start |-> s, end |-> e, cropType |-> k] :
                                                  s \in page.start, e \in page.end, k \in page.cropType}]
    /\ UNCHANGED <<customers, entries, tx, result, partialTaken, serial>>

\* calculateCharge returns to calculate: the amount of the arguments it was
\* called with is displayed and isCalculating is cleared.
CalculateReturns(p) ==
    /\ page.inFlight # {}
    /\ \E call \in page.inFlight :
         page' = [page EXCEPT !.calculatedAmount =
                                 {RoundedAmount(call.end - call.start, GetCropCharge(call.cropType))},
                              !.isCalculating = FALSE, !.inFlight = {}]
    /\ UNCHANGED <<customers, entries, tx, result, partialTaken, serial>>

\* onSubmit: refused unless the form is valid, no calculation is running and
\* an amount is displayed; then addWaterSupplyEntry is called with the form's
\* values, the displayed amount and isPaid false.  sent keeps the start, end
\* and cropType of entryDataForApi, which the entry document copies.  A call
\* that fails clears the amount (onError).
OnSubmit(p) ==
    /\ IsValid(page)
    /\ ~page.isCalculating
    /\ page.calculatedAmount # {}
    /\ \E c \in page.customerId, s \in page.start, e \in page.end, k \in page.cropType,
          amount \in page.calculatedAmount :
         /\ AddEntryCall(p, {c}, {<<s, e>>}, {amount}, {FALSE})
         /\ page' = IF result'.res = "none"
                    THEN [page EXCEPT !.sent = {[start |-> s, end |-> e, cropType |-> k,
                                                 durationMinutes |-> e - s]}]
                    ELSE [page EXCEPT !.calculatedAmount = {}]

\* The transaction of the mutation commits; onSuccess leaves the page, and the
\* next visit mounts it anew.
OnSuccess(p) ==
    /\ AddEntryCommit(p)
    /\ page' = NewEntryPage

\* ------------------------------------------------------------- refused commits
\* A refused commit makes runTransaction run the update function again, which
\* starts with the transaction's first read.
\* The operation whose transaction is at pc.
OpAt(pc) == IF pc = "add_commit" THEN "addWaterSupplyEntry"
            ELSE IF pc = "del_commit" THEN "deleteWaterSupplyEntry"
            ELSE "recordPayment"

ConflictRetry(p) ==
    /\ tx[p].stale
    /\ \/ /\ tx[p].pc = "add_commit"
          /\ IF CustomerExists(tx[p].cid)
             THEN /\ tx' = [tx EXCEPT ![p].stale = FALSE,
                                      ![p].rPending = OrZero(customers[tx[p].cid].pendingAmount)]
                  /\ UNCHANGED result
             ELSE /\ tx' = [tx EXCEPT ![p] = Idle]
                  /\ result' = Outcome(OpAt(tx[p].pc), "CustomerNotFound", tx[p].cid, 0, 0)
       \/ /\ tx[p].pc \in {"pay_query", "pay_commit"}
          /\ IF CustomerExists(tx[p].cid)
             THEN /\ tx' = [tx EXCEPT ![p] = [Idle EXCEPT !.pc = "pay_query", !.cid = tx[p].cid, !.amt = tx[p].amt,
                                                         !.rTotalPaid = customers[tx[p].cid].totalPaid,
                                                         !.rPending = customers[tx[p].cid].pendingAmount]]
                  /\ UNCHANGED result
             ELSE /\ tx' = [tx EXCEPT ![p] = Idle]
                  /\ result' = Outcome(OpAt(tx[p].pc), "CustomerNotFound", tx[p].cid, 0, 0)
       \/ /\ tx[p].pc = "del_commit"
          /\ IF EntryExists(tx[p].eid)
             THEN /\ tx' = [tx EXCEPT ![p].stale = FALSE]
                  /\ UNCHANGED result
             ELSE /\ tx' = [tx EXCEPT ![p] = Idle]
                  /\ result' = Done("deleteWaterSupplyEntry")
    /\ UNCHANGED <<customers, entries, partialTaken, serial>>

\* runTransaction gives up after its last attempt: the operation fails and
\* nothing is written.
ConflictFail(p) ==
    /\ tx[p].stale
    /\ tx[p].pc \in {"add_commit", "pay_query", "pay_commit", "del_commit"}
    /\ tx' = [tx EXCEPT ![p] = Idle]
    /\ result' = Failed(OpAt(tx[p].pc), "TxFailed")
    /\ UNCHANGED <<customers, entries, partialTaken, serial>>

\* ------------------------------------------------------------- specifications
\* Operations called one after another: a call is made only when no other
\* operation is in flight.
Next ==
    \/ AllIdle /\ calls < MaxCalls /\ AddCustomer(Client) /\ calls' = calls + 1 /\ UNCHANGED page
    \/ AllIdle /\ calls < MaxCalls /\ AddEntryCall(Client, CustIds \cup {NoId}, Times \X Times, Amounts, BOOLEAN) /\ calls' = calls + 1 /\ UNCHANGED page
    \/ AllIdle /\ calls < MaxCalls /\ RecordPaymentCall(Client, PayArgs) /\ calls' = calls + 1 /\ UNCHANGED page
    \/ AllIdle /\ calls < MaxCalls /\ DeleteEntryCall(Client) /\ calls' = calls + 1 /\ UNCHANGED page
    \/ AllIdle /\ calls < MaxCalls /\ DeleteCustomerCall(Client) /\ calls' = calls + 1 /\ UNCHANGED page
    \/ AddEntryCommit(Client) /\ UNCHANGED calls /\ UNCHANGED page
    \/ RecordPaymentQuery(Client) /\ UNCHANGED calls /\ UNCHANGED page
    \/ RecordPaymentCommit(Client) /\ UNCHANGED calls /\ UNCHANGED page
    \/ DeleteEntryCommit(Client) /\ UNCHANGED calls /\ UNCHANGED page
    \/ DeleteCustomerCommit(Client) /\ UNCHANGED calls /\ UNCHANGED page

Spec == Init /\ [][Next]_vars

\* Two clients whose operations overlap: any client may take its next step.
\* The clients are the application's pages: one customer has been added, and
\* entries are added as the entry form passes them.
InitConc ==
    /\ customers = [c \in CustIds |-> IF c = "c1" THEN NewCustomerDoc ELSE NoCustomer("none")]
    /\ entries = [e \in EntryIds |-> NoEntry("none")]
    /\ tx = [p \in Procs |-> Idle]
    /\ result = Pending
    /\ partialTaken = [c \in CustIds |-> FALSE]
    /\ serial = [c \in CustIds |-> [totalPaid |-> 0, pendingAmount |-> 0]]
    /\ calls = 0
    /\ page = NewEntryPage

NextConc ==
    \/ \E p \in Procs : calls < MaxCalls /\ AddCustomer(p) /\ calls' = calls + 1 /\ UNCHANGED page
    \/ \E p \in Procs : calls < MaxCalls /\ AddEntryCall(p, FormCustomerIds, FormRanges, FormAmounts, FormPaid) /\ calls' = calls + 1 /\ UNCHANGED page
    \/ \E p \in Procs : calls < MaxCalls /\ RecordPaymentCall(p, FormPayments) /\ calls' = calls + 1 /\ UNCHANGED page
    \/ \E p \in Procs : calls < MaxCalls /\ DeleteEntryCall(p) /\ calls' = calls + 1 /\ UNCHANGED page
    \/ \E p \in Procs : calls < MaxCalls /\ DeleteCustomerCall(p) /\ calls' = calls + 1 /\ UNCHANGED page
    \/ \E p \in Procs : AddEntryCommit(p) /\ UNCHANGED calls /\ UNCHANGED page
    \/ \E p \in Procs : RecordPaymentQuery(p) /\ UNCHANGED calls /\ UNCHANGED page
    \/ \E p \in Procs : RecordPaymentCommit(p) /\ UNCHANGED calls /\ UNCHANGED page
    \/ \E p \in Procs : DeleteEntryCommit(p) /\ UNCHANGED calls /\ UNCHANGED page
    \/ \E p \in Procs : DeleteCustomerCommit(p) /\ UNCHANGED calls /\ UNCHANGED page
    \/ \E p \in Procs : ConflictRetry(p) /\ UNCHANGED calls /\ UNCHANGED page
    \/ \E p \in Procs : ConflictFail(p) /\ UNCHANGED calls /\ UNCHANGED page

SpecConc == InitConc /\ [][NextConc]_vars

\* One client that also edits entries: the operations on the entries of the
\* customer that has been added, called one after another with the arguments
\* the forms pass, and updateWaterSupplyEntry.
NextEdit ==
    \/ AllIdle /\ calls < MaxCalls /\ AddEntryCall(Client, FormCustomerIds, FormRanges, FormAmounts, FormPaid) /\ calls' = calls + 1 /\ UNCHANGED page
    \/ AllIdle /\ calls < MaxCalls /\ RecordPaymentCall(Client, FormPayments) /\ calls' = calls + 1 /\ UNCHANGED page
    \/ AllIdle /\ calls < MaxCalls /\ DeleteEntryCall(Client) /\ calls' = calls + 1 /\ UNCHANGED page
    \/ AllIdle /\ calls < MaxCalls /\ UpdateEntryCall(Client) /\ calls' = calls + 1 /\ UNCHANGED page
    \/ AddEntryCommit(Client) /\ UNCHANGED calls /\ UNCHANGED page
    \/ RecordPaymentQuery(Client) /\ UNCHANGED calls /\ UNCHANGED page
    \/ RecordPaymentCommit(Client) /\ UNCHANGED calls /\ UNCHANGED page
    \/ DeleteEntryCommit(Client) /\ UNCHANGED calls /\ UNCHANGED page
    \/ UpdateEntryCommit(Client) /\ UNCHANGED calls /\ UNCHANGED page

SpecEdit == InitConc /\ [][NextEdit]_vars

\* The entry form's client: a customer and its entries are stored, and charges
\* are calculated, one call after another.
NextCharge ==
    \/ AllIdle /\ calls < MaxCalls /\ CalculateCharge(Client) /\ calls' = calls + 1 /\ UNCHANGED page
    \/ AllIdle /\ calls < MaxCalls /\ AddEntryCall(Client, FormCustomerIds, FormRanges, FormAmounts, FormPaid) /\ calls' = calls + 1 /\ UNCHANGED page
    \/ AddEntryCommit(Client) /\ UNCHANGED calls /\ UNCHANGED page

SpecCharge == InitConc /\ [][NextCharge]_vars

\* The new-entry page: the user fills and changes the fields, the debounced
\* calculation runs, and the form is submitted.
NextForm ==
    \/ ChangeField(Client) /\ UNCHANGED calls
    \/ Calculate(Client) /\ UNCHANGED calls
    \/ CalculateReturns(Client) /\ UNCHANGED calls
    \/ calls < MaxSubmits /\ OnSubmit(Client) /\ calls' = calls + 1
    \/ OnSuccess(Client) /\ UNCHANGED calls

SpecForm == InitConc /\ [][NextForm]_vars

\* The dashboard's client: customers, entries and payments are stored through
\* the API, and the dashboard is fetched, one call after another.
NextDash ==
    \/ AllIdle /\ calls < MaxCalls /\ AddCustomer(Client) /\ calls' = calls + 1 /\ UNCHANGED page
    \/ AllIdle /\ calls < MaxCalls /\ AddEntryCall(Client, FormCustomerIds, FormRanges, FormAmounts, FormPaid) /\ calls' = calls + 1 /\ UNCHANGED page
    \/ AllIdle /\ calls < MaxCalls /\ RecordPaymentCall(Client, PayArgs) /\ calls' = calls + 1 /\ UNCHANGED page
    \/ AllIdle /\ calls < MaxCalls /\ GetDashboardData(Client) /\ calls' = calls + 1 /\ UNCHANGED page
    \/ AddEntryCommit(Client) /\ UNCHANGED <<calls, page>>
    \/ RecordPaymentQuery(Client) /\ UNCHANGED <<calls, page>>
    \/ RecordPaymentCommit(Client) /\ UNCHANGED <<calls, page>>

SpecDash == InitConc /\ [][NextDash]_vars

\* The reports page's client: customers and entries are stored as the forms
\* pass them, and reports are exported, one call after another.
NextReport ==
    \/ AllIdle /\ calls < MaxCalls /\ AddCustomer(Client) /\ calls' = calls + 1 /\ UNCHANGED page
    \/ AllIdle /\ calls < MaxCalls /\ AddEntryCall(Client, FormCustomerIds, FormRanges, FormAmounts, FormPaid) /\ calls' = calls + 1 /\ UNCHANGED page
    \/ AllIdle /\ calls < MaxCalls /\ ExportEntries(Client) /\ calls' = calls + 1 /\ UNCHANGED page
    \/ AddEntryCommit(Client) /\ UNCHANGED <<calls, page>>

SpecReport == InitConc /\ [][NextReport]_vars

\* ------------------------------------------------------------- properties
\* pendingAmount of customer c is the sum of the amounts of its unpaid entries.
Balanced(c) == customers[c].pendingAmount = SumAmount(UnpaidOf(c))
\* No unpaid entry of customer c has a negative amount.
NoNegativeUnpaid(c) == \A e \in UnpaidOf(c) : entries[e].amount >= 0

\* This step is the commit of the transaction client p has at pc.
Committed(p, pc) ==
    /\ tx[p].pc = pc
    /\ tx'[p].pc = "idle"
    /\ result'.res = "ok"
    /\ store' # store

C3_PendingNonNegative ==
    \A c \in CustIds : customers[c].st = "live" => customers[c].pendingAmount >= 0

\* C4: when operations of two clients on the same customer overlap and commit,
\* totalPaid and pendingAmount are what the committed operations give when
\* they are applied one after another in the order of their commits: no
\* update is lost.
C4_NoLostUpdate ==
    \A c \in CustIds :
        customers[c].st = "live" =>
            /\ customers[c].totalPaid = serial[c].totalPaid
            /\ customers[c].pendingAmount = serial[c].pendingAmount

\* A payment is about to commit on balances it read before another client's
\* payment on the same customer committed.
C4_Witness ==
    \E p \in Procs :
        /\ tx[p].pc = "pay_commit" /\ tx[p].stale
        /\ customers[tx[p].cid].st = "live"
        /\ customers[tx[p].cid].totalPaid > tx[p].rTotalPaid
        /\ result = Done("recordPayment")

\* C5: AddEntry, DeleteEntry and RecordPayment are applied all-or-nothing: every
\* change of the store a reader can see is the whole write set of one
\* operation, the customer's balances together with the entry created, deleted
\* or flagged paid.
C5_AllOrNothing ==
    [][store' # store =>
          \E p \in Procs :
             \/ /\ tx[p].pc = "idle"
                /\ entries' = entries
                /\ \E c \in CustIds :
                      /\ customers[c].st = "none"
                      /\ customers' = [customers EXCEPT ![c] = [st |-> "live", totalPaid |-> 0, pendingAmount |-> 0]]
             \/ /\ tx[p].pc = "add_commit"
                /\ customers' = [customers EXCEPT ![tx[p].cid].pendingAmount =
                                    IF tx[p].paid THEN OrZero(@) ELSE JsAdd(OrZero(@), tx[p].amt)]
                /\ \E e \in EntryIds :
                      /\ entries[e].st = "none"
                      /\ entries' = [entries EXCEPT ![e] =
                                        [st |-> "live", customerId |-> tx[p].cid, entryTimestamp |-> tx[p].ts,
                                         amount |-> tx[p].amt, isPaid |-> tx[p].paid]]
             \/ /\ tx[p].pc = "pay_commit"
                /\ customers' = [customers EXCEPT ![tx[p].cid].totalPaid = JsAdd(@, tx[p].amt),
                                                   ![tx[p].cid].pendingAmount = JsMax(0, JsSub(@, tx[p].amt))]
                /\ \A e \in EntryIds :
                      entries'[e] = IF e \in tx[p].marked
                                    THEN [entries[e] EXCEPT !.isPaid = TRUE] ELSE entries[e]
             \/ /\ tx[p].pc = "del_commit"
                /\ entries[tx[p].eid].isPaid
                /\ customers' = customers
                /\ \A e \in EntryIds : e # tx[p].eid => entries'[e] = entries[e]
                /\ entries'[tx[p].eid].st = "gone"
             \/ /\ tx[p].pc = "dc_commit"
                /\ \A c \in CustIds : c # tx[p].cid => customers'[c] = customers[c]
                /\ customers'[tx[p].cid].st = "gone"
                /\ \A e \in EntryIds :
                      IF e \in tx[p].snap THEN entries'[e].st = "gone" ELSE entries'[e] = entries[e]]_vars

\* A payment has committed, balance and flags at once, while the other client
\* has an operation in flight on the same customer.
C5_Witness ==
    /\ result = Done("recordPayment")
    /\ \E q \in Procs :
          /\ tx[q].pc \in {"add_commit", "pay_query", "pay_commit"}
          /\ customers[tx[q].cid].st = "live" /\ customers[tx[q].cid].totalPaid > 0
          /\ \E e \in EntriesOf(tx[q].cid) : entries[e].isPaid

\* C6: a committed RecordPayment(customerId, paymentAmount) with
\* paymentAmount > 0, on balances that are numbers, sets totalPaid to
\* the customer's totalPaid at commit plus paymentAmount and pendingAmount to
\* max(0, pendingAmount at commit - paymentAmount): the old values are the
\* stored ones, not the ones of a read that has gone stale.
C6_PaymentUpdatesStoredBalances ==
    [][\A p \in Procs, c \in CustIds :
          /\ tx[p].cid = c
          /\ Committed(p, "pay_commit")
          /\ tx[p].amt > 0
          /\ customers[c].totalPaid # NaN /\ customers[c].pendingAmount # NaN
          => /\ customers'[c].totalPaid = customers[c].totalPaid + tx[p].amt
             /\ customers'[c].pendingAmount =
                   IF customers[c].pendingAmount - tx[p].amt >= 0
                   THEN customers[c].pendingAmount - tx[p].amt ELSE 0]_vars

\* A payment larger than what was pending has committed: the balance is at 0
\* and more has been paid than the paid entries amount to.
C6_Witness ==
    /\ result = Done("recordPayment")
    /\ \E c \in CustIds :
          /\ customers[c].st = "live"
          /\ customers[c].pendingAmount = 0
          /\ customers[c].totalPaid > SumAmount({e \in EntriesOf(c) : entries[e].isPaid})
          /\ customers[c].totalPaid >= 2

\* C7: a committed RecordPayment flags as paid exactly a run R of the customer's
\* unpaid entries of positive amount such that R holds the oldest of them (no
\* entry left out is older than one in R), the amounts in R add up to at most
\* paymentAmount, and the oldest entry left out does not fit in what remains;
\* entries of amount <= 0 and every entry outside R stay as they were, also a
\* newer one that would fit.  (No amount is at most NaN: a payment of NaN
\* flags nothing.)
C7_OldestFirstRun ==
    [][\A p \in Procs, c \in CustIds :
          tx[p].cid = c /\ Committed(p, "pay_commit") =>
             LET positive == {e \in UnpaidOf(c) : entries[e].amount > 0}
                 R == {e \in UnpaidOf(c) : entries'[e].isPaid}
                 rest == positive \ R
             IN /\ R \subseteq positive
                /\ \A e \in R, f \in rest : entries[e].entryTimestamp <= entries[f].entryTimestamp
                /\ tx[p].amt = NaN => R = {}
                /\ tx[p].amt # NaN => SumAmount(R) <= tx[p].amt
                /\ rest # {} /\ tx[p].amt # NaN =>
                      \E f \in rest :
                         /\ \A g \in rest : entries[f].entryTimestamp <= entries[g].entryTimestamp
                         /\ SumAmount(R) + entries[f].amount > tx[p].amt
                /\ \A e \in EntryIds :
                      entries'[e] = IF e \in R THEN [entries[e] EXCEPT !.isPaid = TRUE] ELSE entries[e]]_vars

\* Unpaid entries of 1 and then 2 and a payment of 2: the entry of 1 is paid,
\* the entry of 2 is unpaid, pendingAmount is 3 - 2.
C7_Witness ==
    /\ result = Done("recordPayment")
    /\ \E c \in CustIds, e1 \in EntryIds, e2 \in EntryIds :
          /\ customers[c].st = "live"
          /\ EntriesOf(c) = {e1, e2}
          /\ entries[e1].entryTimestamp < entries[e2].entryTimestamp
          /\ entries[e1].amount = 1 /\ entries[e1].isPaid
          /\ entries[e2].amount = 2 /\ ~entries[e2].isPaid
          /\ customers[c].totalPaid = 2 /\ customers[c].pendingAmount = 1

\* C8, as stated: a committed RecordPayment of more than the customer's
\* pendingAmount sets pendingAmount to 0, flags every unpaid entry of the
\* customer as paid and adds the full paymentAmount to totalPaid.
C8_OverpaymentPaysEveryEntry ==
    [][\A p \in Procs, c \in CustIds :
          /\ tx[p].cid = c
          /\ Committed(p, "pay_commit")
          /\ tx[p].amt # NaN /\ customers[c].pendingAmount # NaN
          /\ tx[p].amt > customers[c].pendingAmount
          => /\ customers'[c].pendingAmount = 0
             /\ customers'[c].totalPaid = JsAdd(customers[c].totalPaid, tx[p].amt)
             /\ \A e \in UnpaidOf(c) : entries'[e].isPaid]_vars

\* C8: a RecordPayment of more than the customer's pendingAmount commits; it
\* sets pendingAmount to 0 and adds the full paymentAmount to totalPaid.  It
\* flags every unpaid entry of positive amount when paymentAmount is at least
\* the sum of those amounts; entries of amount <= 0 stay unpaid.
C8_OverpaymentAbsorbed ==
    [][\A p \in Procs, c \in CustIds :
          /\ tx[p].cid = c
          /\ Committed(p, "pay_commit")
          /\ tx[p].amt # NaN /\ customers[c].pendingAmount # NaN
          /\ tx[p].amt > customers[c].pendingAmount
          => LET positive == {e \in UnpaidOf(c) : entries[e].amount > 0}
             IN /\ customers'[c].pendingAmount = 0
                /\ customers'[c].totalPaid = JsAdd(customers[c].totalPaid, tx[p].amt)
                /\ tx[p].amt >= SumAmount(positive) => \A e \in positive : entries'[e].isPaid
                /\ \A e \in UnpaidOf(c) \ positive : ~entries'[e].isPaid]_vars

\* A payment of more than was pending and more than the entries amount to has
\* committed: every entry is paid, the balance is 0, the excess is in totalPaid.
C8_Witness ==
    /\ result = Done("recordPayment")
    /\ \E c \in CustIds :
          /\ customers[c].st = "live"
          /\ EntriesOf(c) # {}
          /\ \A e \in EntriesOf(c) : entries[e].isPaid /\ entries[e].amount > 0
          /\ customers[c].pendingAmount = 0
          /\ customers[c].totalPaid > SumAmount(EntriesOf(c))

\* C9, as stated, for a stored customer: RecordPayment with a paymentAmount
\* that is not a number greater than 0 returns the invalid-amount error from
\* its call, and no step of it changes a customer or an entry.
C9_InvalidAmountRejected ==
    [][/\ \A p \in Procs :
             /\ tx[p].pc \in {"pay_query", "pay_commit"}
             /\ tx[p].amt = NaN \/ tx[p].amt <= 0
             => UNCHANGED store
       /\ /\ calls' = calls + 1
          /\ result'.op = "recordPayment"
          /\ result'.cid \in CustIds
          /\ customers[result'.cid].st = "live"
          /\ result'.y = 0 \/ result'.x = NaN \/ result'.x <= 0
          => /\ result'.res = "InvalidArgs"
             /\ UNCHANGED <<store, tx>>]_vars

C11_InvalidRangeError ==
    [][calls' = calls + 1 =>
          /\ \A p \in Procs :
                tx[p].pc = "idle" /\ tx'[p].pc = "add_commit" => tx'[p].ts < tx'[p].end
          /\ result'.op = "addWaterSupplyEntry" /\ result'.y <= result'.x
             => /\ result'.res = "InvalidRange"
                /\ UNCHANGED <<store, tx>>]_vars

\* C11: AddEntry with end <= start always fails, starts no transaction, creates
\* no entry and leaves every balance unchanged.  The error is the invalid-range
\* one when the required fields are there; a call without customerId fails the
\* check of the required fields first, with the invalid-entry-data error.
C11_InvalidRangeRejected ==
    [][calls' = calls + 1 =>
          /\ \A p \in Procs :
                tx[p].pc = "idle" /\ tx'[p].pc = "add_commit" => tx'[p].ts < tx'[p].end
          /\ result'.op = "addWaterSupplyEntry" /\ result'.y <= result'.x
             => /\ result'.res = IF result'.cid = NoId THEN "InvalidArgs" ELSE "InvalidRange"
                /\ UNCHANGED <<store, tx>>]_vars

\* An AddEntry with end <= start has failed with the invalid-range error for a
\* stored customer that has an unpaid entry.
C11_Witness ==
    /\ result.op = "addWaterSupplyEntry" /\ result.res = "InvalidRange"
    /\ result.y <= result.x
    /\ result.cid \in CustIds
    /\ customers[result.cid].st = "live"
    /\ customers[result.cid].pendingAmount > 0
    /\ UnpaidOf(result.cid) # {}

\* C12, as stated: every committed AddEntry creates exactly one new entry, with
\* isPaid = false, and increases the owning customer's pendingAmount (a
\* number) by exactly the entry's amount, whatever the caller passes;
\* totalPaid is unchanged.
C12_AddEntryUnpaidAndPending ==
    [][\A p \in Procs, c \in CustIds :
          /\ tx[p].cid = c
          /\ Committed(p, "add_commit")
          /\ customers[c].pendingAmount # NaN
          => /\ \E e \in EntryIds :
                   /\ entries[e].st = "none"
                   /\ entries'[e].st = "live"
                   /\ entries'[e].customerId = c
                   /\ entries'[e].amount = tx[p].amt
                   /\ ~entries'[e].isPaid
                   /\ \A f \in EntryIds \ {e} : entries'[f] = entries[f]
             /\ customers'[c].pendingAmount = customers[c].pendingAmount + tx[p].amt
             /\ customers'[c].totalPaid = customers[c].totalPaid]_vars

\* C13: DeleteEntry of an entry that is no longer stored succeeds without a
\* write, whatever the entry data passed with it say: it starts no transaction
\* that commits anything, and every customer and every other entry stay as
\* they were.
C13_DeleteIdempotent ==
    [][calls' = calls + 1 =>
          /\ \A p \in Procs :
                tx[p].pc = "idle" /\ tx'[p].pc = "del_commit" => entries[tx'[p].eid].st = "live"
          /\ /\ result'.op = "deleteWaterSupplyEntry"
             /\ result'.x \in EntryIds
             /\ entries[result'.x].st # "live"
             => /\ result'.res = "ok"
                /\ UNCHANGED <<store, tx>>]_vars

\* A second DeleteEntry of a deleted entry, passed as unpaid, has succeeded; its
\* customer is stored and has paid.
C13_Witness ==
    /\ result.op = "deleteWaterSupplyEntry" /\ result.res = "ok"
    /\ result.x \in EntryIds /\ result.y = 0
    /\ entries[result.x].st = "gone"
    /\ customers["c1"].st = "live" /\ customers["c1"].totalPaid > 0

\* C14, as stated: DeleteEntry of a stored entry whose customer is stored
\* commits: the call does not fail, the entry is removed, pendingAmount becomes
\* max(0, pendingAmount - c) with c the stored amount of an unpaid entry and 0
\* for a paid one, and totalPaid is unchanged.
C14_DeleteAdjustsPending ==
    [][/\ /\ calls' = calls + 1
          /\ result'.op = "deleteWaterSupplyEntry"
          /\ result'.x \in EntryIds
          /\ entries[result'.x].st = "live"
          /\ customers[entries[result'.x].customerId].st = "live"
          => result'.res = "ok"
       /\ \A p \in Procs :
             /\ Committed(p, "del_commit")
             /\ customers[entries[tx[p].eid].customerId].st = "live"
             => LET e == tx[p].eid
                    c == entries[e].customerId
                    due == IF entries[e].isPaid THEN 0 ELSE entries[e].amount
                IN /\ entries'[e].st # "live"
                   /\ customers'[c].pendingAmount = JsMax(0, JsSub(customers[c].pendingAmount, due))
                   /\ customers'[c].totalPaid = customers[c].totalPaid]_vars

\* C15, as stated: DeleteEntry of a stored unpaid entry whose customer record is
\* missing succeeds: the call does not fail, the entry is deleted and no
\* customer record is created or modified.
C15_DeleteWithoutCustomer ==
    [][/\ /\ calls' = calls + 1
          /\ result'.op = "deleteWaterSupplyEntry"
          /\ result'.x \in EntryIds
          /\ entries[result'.x].st = "live" /\ ~entries[result'.x].isPaid
          /\ customers[entries[result'.x].customerId].st # "live"
          => result'.res = "ok"
       /\ \A p \in Procs :
             /\ Committed(p, "del_commit")
             /\ ~entries[tx[p].eid].isPaid
             /\ customers[entries[tx[p].eid].customerId].st # "live"
             => /\ entries'[tx[p].eid].st # "live"
                /\ customers' = customers]_vars

\* C16: when operations do not overlap, a DeleteCustomer(customerId) that
\* completes leaves no customer record under that id and no entry whose
\* customerId is that id, so that getCustomerSupplyHistory(customerId) returns
\* an empty list; the records and entries of other customers are unchanged.
C16_CascadeDelete ==
    [][/\ \A p \in Procs :
             tx[p].pc = "dc_commit" /\ tx'[p].pc = "idle" =>
                LET c == tx[p].cid
                IN /\ result'.op = "deleteCustomer" /\ result'.res = "ok"
                   /\ customers'[c].st # "live"
                   /\ \A e \in EntryIds : entries'[e].st = "live" => entries'[e].customerId # c
                   /\ GetCustomerSupplyHistory(c)' = {}
                   /\ \A d \in CustIds \ {c} : customers'[d] = customers[d]
                   /\ \A e \in EntryIds : entries[e].customerId # c => entries'[e] = entries[e]
       /\ /\ calls' = calls + 1
          /\ result'.op = "deleteCustomer" /\ result'.res = "ok"
          => /\ customers[result'.cid].st # "live"
             /\ \A c \in CustIds : c = result'.cid => GetCustomerSupplyHistory(c)' = {}
             /\ UNCHANGED store]_vars

\* A DeleteCustomer has completed: the customer and its entry are gone, another
\* customer is stored.
C16_Witness ==
    /\ result.op = "deleteCustomer" /\ result.res = "ok"
    /\ \E c \in CustIds, d \in CustIds, e \in EntryIds :
          /\ customers[c].st = "gone"
          /\ customers[d].st = "live"
          /\ entries[e].st = "gone"

\* C17, as stated: in every reachable state, under every interleaving of
\* DeleteCustomer with a concurrent AddEntry for the same customer, the
\* customerId of each stored entry is the id of a stored customer.
C17_NoOrphanEntry ==
    \A e \in EntryIds :
        entries[e].st = "live" => customers[entries[e].customerId].st = "live"

\* C18, as stated: over any sequence of AddEntry, DeleteEntry and RecordPayment
\* operations on a stored customer, totalPaid changes only in the commit of a
\* RecordPayment, and then to a greater value.
C18_TotalPaidMonotonic ==
    [][\A c \in CustIds :
          /\ customers[c].st = "live" /\ customers'[c].st = "live"
          /\ customers'[c].totalPaid # customers[c].totalPaid
          => /\ \E p \in Procs : tx[p].cid = c /\ Committed(p, "pay_commit")
             /\ JsGe(customers'[c].totalPaid, customers[c].totalPaid)]_vars

\* C19, as stated: every entry is unpaid when created, and the isPaid of a
\* stored entry changes only from false to true and only in the commit of a
\* RecordPayment for the customer that owns it.
C19_PaidOnlyByPayment ==
    [][\A e \in EntryIds :
          /\ entries[e].st = "none" /\ entries'[e].st = "live" => ~entries'[e].isPaid
          /\ /\ entries[e].st = "live" /\ entries'[e].st = "live"
             /\ entries'[e].isPaid # entries[e].isPaid
             => /\ ~entries[e].isPaid
                /\ \E p \in Procs : tx[p].cid = entries[e].customerId /\ Committed(p, "pay_commit")]_vars

\* C20, as stated: for every start < end and every crop type, calculateCharge
\* returns the integer nearest to durationHours * rate, where rate is the
\* configured rate of the crop type, or the rate of 'Other' when the crop type
\* has no configured rate; 2.5 hours of 'Rice' give 500; the call changes no
\* customer and no entry.
C20_ChargeIsRoundedProduct ==
    [][calls' = calls + 1 /\ result'.op = "calculateCharge" =>
          /\ UNCHANGED <<store, tx>>
          /\ result'.x > 0 =>
                LET rate == IF result'.cid \in DOMAIN CropChargeRates
                            THEN CropChargeRates[result'.cid] ELSE CropChargeRates["Other"]
                    twice == 2 * (MinutesPerHour * result'.y - result'.x * rate)
                IN /\ result'.res = "ok"
                   /\ result'.y # NaN
                   /\ twice <= MinutesPerHour /\ 0 - twice <= MinutesPerHour
                   /\ result'.cid = "Rice" /\ result'.x = 150 => result'.y = 500]_vars

\* C21: every entry stored through the add-entry flow (the new-entry form,
\* calculateCharge, addWaterSupplyEntry) has its end after its start, a
\* positive duration, and as amount the rounded product of its own duration
\* in hours and the rate of its own crop type, also when fields were changed
\* while a calculation was debounced or in flight.
C21_StoredAmountMatchesFields ==
    [][Committed(Client, "add_commit") =>
         \A d \in page.sent :
            /\ d.end > d.start
            /\ d.durationMinutes > 0
            /\ entries'[NewEntryRef].entryTimestamp = d.start
            /\ entries'[NewEntryRef].amount =
                  RoundedAmount(d.durationMinutes, GetCropCharge(d.cropType))]_vars

\* A getDashboardData call has just returned.
DashboardReturned == calls' = calls + 1 /\ result'.op = "getDashboardData"

\* C22: every store failure during an operation is surfaced as a failed
\* operation: getDashboardData, with the aggregate sums it computes, returns
\* no normal result when a read of the store failed and no other read made up
\* for it.
C22_StoreFailureSurfaced ==
    [][DashboardReturned =>
         LET down == result'.down
             unrecovered == \/ "todayEntries" \in down
                            \/ "recentActivity" \in down
                            \/ {"getAggregateFromServer", "fallbackGetDocs"} \subseteq down
         IN unrecovered => result'.res # "ok"]_vars

\* C23: when the aggregation primitive fails and the document reads succeed,
\* aggregateSumForPeriod returns what the primitive would have returned, the
\* sum of the field over the documents matching the same filter: every sum of
\* the dashboard is the same on both paths.
C23_FallbackSameValue ==
    [][DashboardReturned /\ result'.res = "ok"
       /\ "getAggregateFromServer" \in result'.down /\ "fallbackGetDocs" \notin result'.down =>
         \A today \in Times : today = result'.x =>
            /\ result'.data.pendingAmount =
                  AggregateSumForPeriod("customers", "pendingAmount", Period({}, {}), {})
            /\ result'.data.monthlyRevenue =
                  AggregateSumForPeriod("waterSupplyEntries", "amount", Period({FirstInstant}, {LastInstant}), {})
            /\ result'.data.sixMonthRevenue =
                  AggregateSumForPeriod("waterSupplyEntries", "amount", Period({FirstInstant}, {today}), {})
            /\ result'.data.yearlyRevenue =
                  AggregateSumForPeriod("waterSupplyEntries", "amount", Period({FirstInstant}, {LastInstant}), {})
            /\ result'.data.totalRevenue =
                  AggregateSumForPeriod("waterSupplyEntries", "amount", Period({}, {today}), {})]_vars

\* C24: the dashboard's totalRevenue is the sum of amount over every stored
\* entry, whatever its start timestamp, entries that start after the end of
\* the current day included (no read of the store failing).
C24_TotalRevenueAllTime ==
    [][DashboardReturned /\ result'.res = "ok" /\ result'.down = {} =>
         result'.data.totalRevenue = SumAmount({e \in EntryIds : EntryExists(e)})]_vars

\* C25: exportEntries fails with the no-data-to-export error and produces no
\* CSV blob whenever the filtered result set is empty; whenever it is not
\* empty the export succeeds with the header row followed by one row per
\* entry of the set.
C25_ExportRows ==
    [][calls' = calls + 1 /\ result'.op = "exportEntries" /\ result'.res # "FetchFailed" =>
         LET f == result'.filters
             matching == {e \in EntryIds :
                            /\ entries[e].st = "live"
                            /\ f.customerId \in {{}, {"all"}, {entries[e].customerId}}
                            /\ \A d \in f.startDate : entries[e].entryTimestamp >= d
                            /\ \A d \in f.endDate : entries[e].entryTimestamp <= d}
         IN IF matching = {}
            THEN result'.res = "NoDataToExport" /\ result'.blob = {}
            ELSE /\ result'.res = "ok"
                 /\ result'.blob # {}
                 /\ \A csv \in result'.blob :
                      /\ csv[1] = Headers
                      /\ Len(csv) = 1 + Cardinality(matching)
                      /\ \A e \in matching :
                           Cardinality({i \in 2..Len(csv) : csv[i] = CsvRow(entries[e])})
                             = Cardinality({x \in matching : CsvRow(entries[x]) = CsvRow(entries[e])})]_vars

\* An export has failed for lack of data while the store holds entries, the
\* filter matching none of them.
C25_Witness ==
    /\ result.op = "exportEntries" /\ result.res = "NoDataToExport"
    /\ \E e \in EntryIds : EntryExists(e)

\* C26: in every transactional operation (AddEntry, UpdateEntry, DeleteEntry,
\* RecordPayment) each transactional read is issued before the first staged
\* write: no run of an update function issues a transaction.get after a write.
C26_ReadsBeforeWrites ==
    [][\A p \in Procs :
          /\ tx[p].pc = "idle" /\ tx'[p].pc = "add_commit" => ReadsBeforeWrites(AddEntryAccesses)
          /\ tx[p].pc = "pay_query" /\ tx'[p].pc = "pay_commit" =>
                ReadsBeforeWrites(RecordPaymentAccesses(tx'[p].marked))
          /\ tx[p].pc = "idle" /\ tx'[p].pc = "upd_commit" =>
                ReadsBeforeWrites(UpdateEntryAccesses(tx'[p].adj))
          /\ \A e \in EntryIds :
                /\ EntryExists(e)
                /\ tx[p].pc = "idle" /\ calls' = calls + 1
                /\ \/ tx'[p].pc = "del_commit" /\ tx'[p].eid = e
                   \/ result'.op = "deleteWaterSupplyEntry" /\ result'.res = "TxFailed" /\ result'.x = e
                => ReadsBeforeWrites(DeleteEntryAccesses(entries[e].isPaid,
                                                         CustomerExists(entries[e].customerId)))]_vars

\* C27: when all entry amounts are non-negative and entries are created
\* unpaid, a customer's pendingAmount is at most the sum of the amounts of
\* its unpaid entries in every state reached by AddEntry, DeleteEntry and
\* RecordPayment.
C27_PendingNeverOverstates ==
    \A c \in CustIds :
       CustomerExists(c) /\ (\A e \in EntriesOf(c) : entries[e].amount >= 0)
          => JsLe(customers[c].pendingAmount, SumAmount(UnpaidOf(c)))

\* C28: the amounts of the entries that one RecordPayment marks paid add up
\* to at most its paymentAmount, and every entry it marks paid belongs to the
\* paying customer and was unpaid in the snapshot that payment read, under
\* any interleaving with concurrent AddEntry, DeleteEntry and RecordPayment.
C28_MarkedWithinPayment ==
    [][\A p \in Procs : Committed(p, "pay_commit") =>
          LET flagged == tx[p].marked \cup {e \in EntryIds : entries'[e] # entries[e]}
          IN /\ flagged # {} => JsLe(SumAmount(flagged), tx[p].amt)
             /\ \A e \in flagged :
                  /\ entries[e].customerId = tx[p].cid
                  /\ e \in tx[p].snap
                  /\ entries'[e].isPaid]_vars

\* A payment has committed and flagged an entry while the other client is in
\* the middle of an operation of its own.
C28_Witness ==
    /\ result.op = "recordPayment" /\ result.res = "ok"
    /\ \E e \in EntryIds : EntryExists(e) /\ entries[e].isPaid
    /\ \E q \in Procs : tx[q].pc # "idle"

\* totalPaid + pendingAmount of customer c is the sum of the amounts of all
\* of c's entries.
LedgerTotal(c) ==
    JsAdd(customers[c].totalPaid, customers[c].pendingAmount) = SumAmount(EntriesOf(c))

\* This step commits what C29 leaves out for customer c: an entry created
\* paid, an entry deleted, or a payment above the pendingAmount at its commit.
OutsideC29(c) ==
    \E p \in Procs :
       /\ tx[p].cid = c
       /\ \/ Committed(p, "add_commit") /\ tx[p].paid
          \/ Committed(p, "del_commit")
          \/ Committed(p, "upd_commit")
          \/ Committed(p, "pay_commit") /\ ~JsLe(tx[p].amt, customers[c].pendingAmount)

\* C29: for a customer whose entries are all created unpaid, with no entry
\* deleted or updated and every payment at most the pendingAmount at its
\* commit, totalPaid + pendingAmount is the sum of the amounts of all of the
\* customer's entries in every state: it is so when the customer is added,
\* and every step other than those left out keeps it so.
C29_PaidPlusPendingIsTotal ==
    [][\A c \in CustIds :
          /\ ~CustomerExists(c) /\ CustomerExists(c)' => LedgerTotal(c)'
          /\ CustomerExists(c) /\ CustomerExists(c)' /\ LedgerTotal(c) /\ ~OutsideC29(c)
                => LedgerTotal(c)']_vars

\* Entries have been added and a payment within the pendingAmount has been
\* committed, part of the balance being paid and part pending.
C29_Witness ==
    \E c \in CustIds :
       /\ CustomerExists(c) /\ LedgerTotal(c)
       /\ customers[c].totalPaid > 0 /\ customers[c].pendingAmount > 0
       /\ Cardinality(EntriesOf(c)) >= 2
       /\ result.op = "recordPayment" /\ result.res = "ok"

\* What a stored entry contributes to its customer's pendingAmount: its
\* amount if it is unpaid, 0 if it is paid.
UnpaidContribution(doc) == IF doc.isPaid THEN 0 ELSE doc.amount

\* C30: updateWaterSupplyEntry changes the pendingAmount of the entry's
\* customer by exactly the entry's unpaid contribution after the update minus
\* its unpaid contribution as stored before the update, clamped at 0, also
\* when the caller's oldEntryData differs from the entry stored.
C30_UpdateAdjustsByStoredDifference ==
    [][\A p \in Procs : tx[p].pc = "upd_commit" /\ result'.res = "ok" =>
          LET e == tx[p].eid
              c == entries[e].customerId
              change == UnpaidContribution(entries'[e]) - UnpaidContribution(entries[e])
          IN /\ customers'[c].pendingAmount = Max(0, customers[c].pendingAmount + change)
             /\ \A d \in CustIds \ {c} : customers'[d] = customers[d]]_vars
====
